---- MODULE Spec2Model ----
(***************************************************************************)
(* Model of qd_detr/start_end_dataset.py: the StartEndDataset object, its   *)
(* label builders (get_span_labels, the saliency builders) and the         *)
(* per-example assembly in __getitem__.                                      *)
(*                                                                          *)
(* Python lists are sequences; Python index i is sequence position i+1.     *)
(* A call that raises is a result record whose exc field names the          *)
(* exception; exc = "none" is a normal return.                              *)
(* The process-wide generator of module random is a draw stream with a      *)
(* read position: a seed fixes the stream, randbelow(n) reads one draw.     *)
(***************************************************************************)
EXTENDS Integers, Sequences, FiniteSets, TLC

\* pc:     "new" before the constructor ran, "ready" once it completed,
\*         "failed" when it raised
\* self:   the fields of the StartEndDataset object
\* data:   self.data, the in-memory list of annotation records
\* loaded: the value of self.data when the constructor returned
\* ret:    the last call made on the object and what it returned or raised
VARIABLES pc, self, data, loaded, ret

vars == <<pc, self, data, loaded, ret>>

(***************************************************************************)
(* Bounds of the model.                                                     *)
(***************************************************************************)
\* largest number of clips of a video feature (ctx_l ranges over 1..MaxCtx)
MaxCtx == 4
\* largest second used as a window endpoint
MaxSec == 5
\* largest number of relevant windows of one annotation record
MaxWin == 3
\* largest number of relevant clip ids of one annotation record
MaxRel == 2

\* default clip length in seconds (clip_len=2 of __init__)
DefaultClipLen == 2

\* the element of a one-element set: {e(x) : x \in {v}} computes v once and
\* names it x in e
The(S) == CHOOSE e \in S : TRUE

Min(a, b) == IF a <= b THEN a ELSE b
Max(a, b) == IF a >= b THEN a ELSE b

\* the draws a stream is made of: wide enough for every population sampled
DrawVals == 0..(Max(MaxCtx, Max(MaxWin, MaxRel)) - 1)

\* Python's None and a missing key: a text field holds NoneStr; a list-valued
\* field holds None when absent and Some(list) when present
NoneStr == "None"
None == <<>>
Some(x) == <<x>>
Get(o) == o[1]

(***************************************************************************)
(* Module random (CPython): randbelow, shuffle, sample.                     *)
(***************************************************************************)
\* one draw from the generator state r = [stream, pos]; the stream is read
\* cyclically
randbelow(r, n) ==
    [val |-> r.stream[r.pos + 1] % n,
     rng |-> [stream |-> r.stream, pos |-> (r.pos + 1) % Len(r.stream)]]

swap(x, i, j) == [x EXCEPT ![i + 1] = x[j + 1], ![j + 1] = x[i + 1]]

\* random.shuffle(x): for i in reversed(range(1, len(x))): j = randbelow(i+1);
\* x[i], x[j] = x[j], x[i]
RECURSIVE shuffle_from(_, _, _)
shuffle_from(x, i, r) ==
    IF i < 1 THEN [list |-> x, rng |-> r]
    ELSE The({The({shuffle_from(y, i - 1, d.rng) : y \in {swap(x, i, d.val)}}) :
                 d \in {randbelow(r, i + 1)}})

shuffle(x, r) == shuffle_from(x, Len(x) - 1, r)

\* random.sample(population, k), pool algorithm (n <= 21):
\* for i in range(k): j = randbelow(n-i); result[i] = pool[j];
\*                    pool[j] = pool[n-i-1]
RECURSIVE sample_from(_, _, _, _, _)
sample_from(pool, k, i, result, r) ==
    IF i = k THEN [exc |-> "none", list |-> result, rng |-> r]
    ELSE The({The({sample_from(rest, k, i + 1, picked, d.rng) :
                        rest \in {[pool EXCEPT ![d.val + 1] = pool[Len(pool) - i]]},
                        picked \in {Append(result, pool[d.val + 1])}}) :
                 d \in {randbelow(r, Len(pool) - i)}})

sample(population, k, r) ==
    IF k > Len(population)
    THEN [exc |-> "ValueError", list |-> <<>>, rng |-> r]
    ELSE The({sample_from(pool, k, 0, <<>>, r) : pool \in {population}})

\* list(range(a, b))
RECURSIVE range(_, _)
range(a, b) == IF a >= b THEN <<>> ELSE <<a>> \o range(a + 1, b)

Elems(s) == {s[i] : i \in 1..Len(s)}

(***************************************************************************)
(* Rationals <<num, den>> stand for the floats of the continuous regime.    *)
(***************************************************************************)
Rat(n, d) == <<n, d>>
RatAdd(a, b) == <<a[1] * b[2] + b[1] * a[2], a[2] * b[2]>>
RatSub(a, b) == <<a[1] * b[2] - b[1] * a[2], a[2] * b[2]>>
RatHalf(a) == <<a[1], 2 * a[2]>>

\* qd_detr.span_utils.span_xx_to_cxw on one row [start, end]:
\* center = (start + end) * 0.5, width = end - start
span_xx_to_cxw(row) == <<RatHalf(RatAdd(row[1], row[2])), RatSub(row[2], row[1])>>

\* int(x / y) for x >= 0, y > 0
IntDiv(x, y) == x \div y

(***************************************************************************)
(* StartEndDataset.get_span_labels(windows, ctx_l).  The result carries the *)
(* labels, the raw lengths, the argument list as the call leaves it (the    *)
(* shuffle is in place) and the generator state.                            *)
(***************************************************************************)
get_span_labels_ce(obj, kept, ctx_l) ==
    [i \in 1..Len(kept) |->
        <<IntDiv(kept[i][1], obj.clip_len),
          Min(IntDiv(kept[i][2], obj.clip_len), ctx_l) - 1>>]

get_span_labels_l1(obj, kept, ctx_l) ==
    [i \in 1..Len(kept) |->
        span_xx_to_cxw(<<Rat(kept[i][1], ctx_l * obj.clip_len),
                         Rat(kept[i][2], ctx_l * obj.clip_len)>>)]

\* lines 323-336 on the kept windows; arg is the argument list as the call
\* leaves it
span_labels_of(obj, kept, ctx_l, sh) ==
    LET lengths == [i \in 1..Len(kept) |-> kept[i][2] - kept[i][1]]
    IN IF obj.span_loss_type = "l1"
       THEN [exc |-> "none", windows |-> get_span_labels_l1(obj, kept, ctx_l),
             lengths |-> lengths, arg |-> sh.list, rng |-> sh.rng]
       ELSE IF obj.span_loss_type = "ce"
       THEN [exc |-> "none", windows |-> get_span_labels_ce(obj, kept, ctx_l),
             lengths |-> lengths, arg |-> sh.list, rng |-> sh.rng]
       ELSE [exc |-> "NotImplementedError", windows |-> <<>>,
             lengths |-> <<>>, arg |-> sh.list, rng |-> sh.rng]

\* lines 319-321: random.shuffle(windows) in place when there are more than
\* max_windows windows
span_shuffle(obj, windows, r) ==
    IF Len(windows) > obj.max_windows THEN shuffle(windows, r)
    ELSE [list |-> windows, rng |-> r]

\* line 321 left out: every window is kept
span_cut_none(obj, windows) == windows

\* line 321: windows = windows[:self.max_windows], under the test of line 319
span_cut(obj, windows) ==
    IF Len(windows) > obj.max_windows THEN SubSeq(windows, 1, obj.max_windows)
    ELSE windows

get_span_labels(obj, windows, ctx_l, r) ==
    The({span_labels_of(obj, span_cut(obj, sh.list), ctx_l, sh) :
            sh \in {span_shuffle(obj, windows, r)}})

(***************************************************************************)
(* numpy helpers.                                                           *)
(***************************************************************************)
RECURSIVE SumSeq(_)
SumSeq(s) == IF s = <<>> THEN 0 ELSE Head(s) + SumSeq(Tail(s))

zeros(n) == [i \in 1..n |-> 0]

\* the permutations of 0..n-1, as index lists
IndexPerms(n) ==
    {p \in [1..n -> 0..(n - 1)] : \A i, j \in 1..n : i # j => p[i] # p[j]}

\* np.argsort(agg): an index list that puts agg in increasing order; the order
\* of equal scores is not fixed by the default (unstable) sort
ArgSorts(agg) ==
    {p \in IndexPerms(Len(agg)) :
        \A i \in 1..(Len(agg) - 1) : agg[p[i] + 1] <= agg[p[i + 1] + 1]}

\* x[-n:] and x[:n]
LastN(x, n) == SubSeq(x, Max(1, Len(x) - n + 1), Len(x))
FirstN(x, n) == SubSeq(x, 1, Min(n, Len(x)))

Failed(e, r) ==
    [exc |-> e, pos |-> <<>>, neg |-> <<>>, score_array |-> <<>>, rng |-> r]

(***************************************************************************)
(* StartEndDataset.get_saliency_labels_sub_as_query(gt_window, ctx_l, max_n)*)
(***************************************************************************)
sub_gt_ed(obj, gt_window, ctx_l) ==
    Max(0, Min(IntDiv(gt_window[2], obj.clip_len), ctx_l) - 1)

sub_gt_st(obj, gt_window, ctx_l) ==
    LET gt_st == IntDiv(gt_window[1], obj.clip_len)
        gt_ed == sub_gt_ed(obj, gt_window, ctx_l)
    IN IF gt_st > gt_ed THEN gt_ed ELSE gt_st

\* sub_pos_clip_indices that returns the single clip once when the window
\* covers one clip (line 196 as [gt_st])
sub_pos_clip_indices_single(gt_st, gt_ed, max_n, r) ==
    IF gt_st # gt_ed
    THEN sample(range(gt_st, gt_ed + 1), max_n, r)
    ELSE [exc |-> "none", list |-> <<gt_st>>, rng |-> r]

sub_pos_clip_indices(gt_st, gt_ed, max_n, r) ==
    IF gt_st # gt_ed
    THEN sample(range(gt_st, gt_ed + 1), max_n, r)
    ELSE [exc |-> "none", list |-> <<gt_st, gt_st>>, rng |-> r]

sub_neg_clip_indices(gt_st, gt_ed, ctx_l, max_n, r) ==
    sample(range(0, gt_st) \o range(gt_ed + 1, ctx_l), max_n, r)

\* sub_score_array with the slice of line 203 taken as [gt_st:gt_ed]
sub_score_array_open(gt_st, gt_ed, ctx_l) ==
    [i \in 1..ctx_l |-> IF gt_st <= i - 1 /\ i - 1 < gt_ed THEN 1 ELSE 0]

sub_score_array(gt_st, gt_ed, ctx_l) ==
    [i \in 1..ctx_l |-> IF gt_st <= i - 1 /\ i - 1 < gt_ed + 1 THEN 1 ELSE 0]

get_saliency_labels_sub_as_query(obj, gt_window, ctx_l, max_n, r) ==
    LET gt_st == sub_gt_st(obj, gt_window, ctx_l)
        gt_ed == sub_gt_ed(obj, gt_window, ctx_l)
        pos == sub_pos_clip_indices(gt_st, gt_ed, max_n, r)
        neg == sub_neg_clip_indices(gt_st, gt_ed, ctx_l, max_n, pos.rng)
    IN IF pos.exc # "none" THEN Failed(pos.exc, pos.rng)
       ELSE IF neg.exc # "none" THEN Failed(neg.exc, neg.rng)
       ELSE [exc |-> "none", pos |-> pos.list, neg |-> neg.list,
             score_array |-> sub_score_array(gt_st, gt_ed, ctx_l),
             rng |-> neg.rng]

(***************************************************************************)
(* StartEndDataset.get_saliency_labels_all(rel_clip_ids, scores, ctx_l,     *)
(* max_n, add_easy_negative); sort_indices is the outcome of np.argsort.    *)
(***************************************************************************)
all_agg_scores(scores) == [i \in 1..Len(scores) |-> SumSeq(scores[i])]

\* lines 259-267: the loop that fills the dense array, growing it by one
\* zero when an id is >= ctx_l (the slice assignment needs an array of
\* length ctx_l) and writing the aggregate score at the id
RECURSIVE all_score_array(_, _, _, _, _)
all_score_array(rel_clip_ids, agg_scores, ctx_l, idx, score_array) ==
    IF idx = Len(rel_clip_ids) THEN [exc |-> "none", arr |-> score_array]
    ELSE LET id == rel_clip_ids[idx + 1]
             grow == id >= ctx_l
             arr == IF grow THEN score_array \o <<0>> ELSE score_array
         IN IF grow /\ Len(score_array) # ctx_l
            THEN [exc |-> "ValueError", arr |-> <<>>]
            ELSE IF id >= Len(arr)
            THEN [exc |-> "IndexError", arr |-> <<>>]
            ELSE all_score_array(rel_clip_ids, agg_scores, ctx_l, idx + 1,
                                 [arr EXCEPT ![id + 1] = agg_scores[idx + 1]])

\* all_hard_pos taken from the head of sort_indices
all_hard_pos_lowest(rel_clip_ids, sort_indices, ctx_l, max_n) ==
    LET bot == FirstN(sort_indices, max_n)
    IN [i \in 1..Len(bot) |-> Min(rel_clip_ids[bot[i] + 1], ctx_l - 1)]

all_hard_pos(rel_clip_ids, sort_indices, ctx_l, max_n) ==
    LET top == LastN(sort_indices, max_n)
    IN [i \in 1..Len(top) |-> Min(rel_clip_ids[top[i] + 1], ctx_l - 1)]

all_hard_neg(rel_clip_ids, sort_indices, ctx_l, max_n) ==
    LET bot == FirstN(sort_indices, max_n)
    IN [i \in 1..Len(bot) |-> Min(rel_clip_ids[bot[i] + 1], ctx_l - 1)]

\* list(set(range(ctx_l)) - set(rel_clip_ids)), in increasing order
all_easy_neg_pool(rel_clip_ids, ctx_l) ==
    SelectSeq(range(0, ctx_l), LAMBDA c : c \notin Elems(rel_clip_ids))

all_easy_pos(rel_clip_ids, max_n, r) == sample(rel_clip_ids, max_n, r)

get_saliency_labels_all(rel_clip_ids, scores, ctx_l, max_n, add_easy_negative, sort_indices, r) ==
    LET agg_scores == all_agg_scores(scores)
        filled == all_score_array(rel_clip_ids, agg_scores, ctx_l, 0, zeros(ctx_l))
        hard_pos == all_hard_pos(rel_clip_ids, sort_indices, ctx_l, max_n)
        hard_neg == all_hard_neg(rel_clip_ids, sort_indices, ctx_l, max_n)
        pool == all_easy_neg_pool(rel_clip_ids, ctx_l)
        easy_pos == all_easy_pos(rel_clip_ids, max_n, r)
        easy_neg == sample(pool, max_n, easy_pos.rng)
    IN IF scores = <<>> THEN Failed("AxisError", r)
       ELSE IF filled.exc # "none" THEN Failed(filled.exc, r)
       ELSE IF ~add_easy_negative
       THEN [exc |-> "none", pos |-> hard_pos, neg |-> hard_neg,
             score_array |-> filled.arr, rng |-> r]
       ELSE IF Len(pool) >= max_n
       THEN IF easy_pos.exc # "none" THEN Failed(easy_pos.exc, easy_pos.rng)
            ELSE [exc |-> "none", pos |-> hard_pos \o easy_pos.list,
                  neg |-> hard_neg \o easy_neg.list,
                  score_array |-> filled.arr, rng |-> easy_neg.rng]
       ELSE [exc |-> "none", pos |-> hard_pos \o hard_pos,
             neg |-> hard_neg \o hard_neg,
             score_array |-> filled.arr, rng |-> r]

(***************************************************************************)
(* StartEndDataset.get_saliency_labels_all_tvsum(labels, ctx_l, max_n,      *)
(* add_easy_negative); labels has one row of annotator marks (1..5) per     *)
(* clip.                                                                    *)
(***************************************************************************)
\* np.sum(labels - np.ones_like(labels), axis=-1)[:ctx_l]
tvsum_agg_scores(labels, ctx_l) ==
    FirstN([i \in 1..Len(labels) |-> SumSeq(labels[i]) - Len(labels[i])], ctx_l)

\* agg_scores / 80 * 12
tvsum_score_array(agg_scores) ==
    [i \in 1..Len(agg_scores) |-> Rat(agg_scores[i] * 12, 80)]

tvsum_hard_pos(sort_indices, ctx_l, max_n) ==
    LET top == LastN(sort_indices, max_n)
    IN [i \in 1..Len(top) |-> Min(top[i], ctx_l - 1)]

tvsum_hard_neg(sort_indices, ctx_l, max_n) ==
    LET bot == FirstN(sort_indices, max_n)
    IN [i \in 1..Len(bot) |-> Min(bot[i], ctx_l - 1)]

get_saliency_labels_all_tvsum(labels, ctx_l, max_n, add_easy_negative, sort_indices, r) ==
    LET agg_scores == tvsum_agg_scores(labels, ctx_l)
        hard_pos == tvsum_hard_pos(sort_indices, ctx_l, max_n)
        hard_neg == tvsum_hard_neg(sort_indices, ctx_l, max_n)
    IN IF ~add_easy_negative
       THEN [exc |-> "none", pos |-> hard_pos, neg |-> hard_neg,
             score_array |-> tvsum_score_array(agg_scores), rng |-> r]
       ELSE IF ctx_l >= max_n
       THEN Failed("NameError", r)   \* rel_clip_ids is not defined here
       ELSE [exc |-> "none", pos |-> hard_pos \o hard_pos,
             neg |-> hard_neg \o hard_neg,
             score_array |-> tvsum_score_array(agg_scores), rng |-> r]

(***************************************************************************)
(* StartEndDataset.__init__ and load_data.                                  *)
(***************************************************************************)
Q_FEAT_TYPES == {"pooler_output", "last_hidden_state"}

TVSUM_DOMAINS == {"BK", "BT", "DS", "FM", "GA", "MS", "PK", "PR", "VT", "VU"}

\* the words the code looks for in data_path and ctx_mode, per value
PathWords ==
    [hl_train |-> {"train"},
     subs_train |-> {"train", "subs_train"},
     hl_val |-> {"val"}]

CtxWords == [video |-> {"video"}, video_tef |-> {"video", "tef"}, tef |-> {"tef"}]

\* n_examples = int(len(datalist) * data_ratio); datalist[:n_examples]
load_data(p, file) ==
    IF p.data_ratio # <<1, 1>>
    THEN SubSeq(file, 1, (Len(file) * p.data_ratio[1]) \div p.data_ratio[2])
    ELSE file

\* Text is a sequence of one-character strings.  The characters of a
\* threshold text: brackets, commas, blanks and decimal digits
Digits == <<"0", "1", "2", "3", "4", "5", "6", "7", "8", "9">>

\* s[1:-1]
slice_inner(s) == SubSeq(s, 2, Len(s) - 1)

\* s.split(sep) for a one-character separator
RECURSIVE split(_, _)
split(s, sep) ==
    IF \A i \in 1..Len(s) : s[i] # sep THEN <<s>>
    ELSE LET k == CHOOSE i \in 1..Len(s) :
                      s[i] = sep /\ \A j \in 1..(i - 1) : s[j] # sep
         IN <<SubSeq(s, 1, k - 1)>> \o split(SubSeq(s, k + 1, Len(s)), sep)

\* s.strip(), which int() applies to its argument
RECURSIVE lstrip(_)
lstrip(s) == IF s # <<>> /\ Head(s) = " " THEN lstrip(Tail(s)) ELSE s
RECURSIVE rstrip(_)
rstrip(s) ==
    IF s # <<>> /\ s[Len(s)] = " " THEN rstrip(SubSeq(s, 1, Len(s) - 1)) ELSE s

RECURSIVE digits_value(_, _)
digits_value(s, acc) ==
    IF s = <<>> THEN acc
    ELSE digits_value(Tail(s),
             10 * acc + (CHOOSE d \in 0..9 : Digits[d + 1] = Head(s)))

\* int(v) of an unsigned decimal text: ValueError unless v is digits with
\* blanks around them
int_of(v) ==
    LET s == rstrip(lstrip(v))
    IN IF s = <<>> \/ \E i \in 1..Len(s) : s[i] \notin Elems(Digits)
       THEN [exc |-> "ValueError", val |-> 0]
       ELSE [exc |-> "none", val |-> digits_value(s, 0)]

\* lines 91-94: [int(v) for v in m_classes[1:-1].split(',')], or None
init_m_vals(m_classes) ==
    IF m_classes = None THEN [exc |-> "none", m_vals |-> None]
    ELSE LET parts == split(slice_inner(Get(m_classes)), ",")
         IN IF \E i \in 1..Len(parts) : int_of(parts[i]).exc # "none"
            THEN [exc |-> "ValueError", m_vals |-> None]
            ELSE [exc |-> "none",
                  m_vals |-> Some([i \in 1..Len(parts) |-> int_of(parts[i]).val])]

\* lines 79-82: clip_type, self.text_type = self.use_cliptext.split(' ');
\* use_cliptext is a text of words and blanks, None when absent; an absent
\* or empty value leaves the attribute text_type unset (None)
init_text_type(use_cliptext) ==
    IF use_cliptext = None \/ Get(use_cliptext) = <<>>
    THEN [exc |-> "none", text_type |-> None]
    ELSE LET parts == split(Get(use_cliptext), " ")
         IN IF Len(parts) # 2 THEN [exc |-> "ValueError", text_type |-> None]
            ELSE [exc |-> "none", text_type |-> parts[2]]

\* the fields the constructor sets from its parameters
init_fields(p) ==
    [dset_name |-> p.dset_name, data_path |-> p.data_path,
     data_ratio |-> p.data_ratio, q_feat_type |-> p.q_feat_type,
     max_q_l |-> p.max_q_l, max_v_l |-> p.max_v_l, ctx_mode |-> p.ctx_mode,
     use_tef |-> "tef" \in CtxWords[p.ctx_mode],
     use_video |-> "video" \in CtxWords[p.ctx_mode],
     load_labels |-> p.load_labels, clip_len |-> p.clip_len,
     max_windows |-> p.max_windows, span_loss_type |-> p.span_loss_type,
     txt_drop_ratio |-> p.txt_drop_ratio,
     m_vals |-> init_m_vals(p.m_classes).m_vals,
     use_cliptext |-> p.use_cliptext, normalize_t |-> p.normalize_t,
     text_type |-> init_text_type(p.use_cliptext).text_type]

\* lines 59-63: the two assertions that guard the configuration
init_checks_ok(p) ==
    /\ ("val" \in PathWords[p.data_path] \/ "test" \in PathWords[p.data_path])
           => p.txt_drop_ratio = <<0, 1>>
    /\ p.q_feat_type \in Q_FEAT_TYPES

\* lines 69-77: the domain filter of the tvsum dataset
init_domain_filter(p, datalist) ==
    IF p.dset_name # "tvsum" THEN [exc |-> "none", data |-> datalist]
    ELSE IF p.dset_domain \notin TVSUM_DOMAINS
    THEN [exc |-> "AssertionError", data |-> <<>>]
    ELSE IF \E i \in 1..Len(datalist) : datalist[i].domain = NoneStr
    THEN [exc |-> "KeyError", data |-> <<>>]
    ELSE [exc |-> "none",
          data |-> SelectSeq(datalist, LAMBDA d : d.domain = p.dset_domain)]

StartEndDataset_init(p, file) ==
    LET filtered == init_domain_filter(p, load_data(p, file))
    IN IF ~init_checks_ok(p)
       THEN [exc |-> "AssertionError", self |-> None, data |-> <<>>]
       ELSE IF filtered.exc # "none"
       THEN [exc |-> filtered.exc, self |-> None, data |-> <<>>]
       ELSE IF init_text_type(p.use_cliptext).exc # "none"
       THEN [exc |-> init_text_type(p.use_cliptext).exc, self |-> None,
             data |-> <<>>]
       ELSE IF init_m_vals(p.m_classes).exc # "none"
       THEN [exc |-> init_m_vals(p.m_classes).exc, self |-> None, data |-> <<>>]
       ELSE [exc |-> "none", self |-> init_fields(p), data |-> filtered.data]

(***************************************************************************)
(* Inputs of the label builders.                                            *)
(***************************************************************************)
\* the constructor's defaults (line 33-38), with the bounded lengths
DefaultParams ==
    [dset_name |-> "hl", data_path |-> "hl_train",
     q_feat_type |-> "last_hidden_state", max_q_l |-> MaxCtx, max_v_l |-> MaxCtx,
     data_ratio |-> <<1, 1>>, ctx_mode |-> "video", load_labels |-> TRUE,
     clip_len |-> DefaultClipLen, max_windows |-> MaxWin - 1,
     span_loss_type |-> "l1", txt_drop_ratio |-> <<0, 1>>,
     dset_domain |-> NoneStr, m_classes |-> None,
     use_cliptext |-> None, normalize_t |-> TRUE]

ClipLens == {1, DefaultClipLen}
MaxWindowsVals == 1..(MaxWin - 1)
\* "iou" stands for any value that is neither "l1" nor "ce"
SpanLossTypes == {"l1", "ce", "iou"}
CtxLens == 1..MaxCtx

\* generator states whose stream has k draws
Streams(k) == {[stream |-> st, pos |-> 0] : st \in [1..k -> DrawVals]}

\* generator states whose stream has k draws below n: all that a shuffle of
\* at most n items can tell apart
StreamsBelow(k, n) ==
    {[stream |-> st, pos |-> 0] : st \in [1..k -> 0..(n - 1)]}

\* [start_sec, end_sec] with 0 <= start_sec <= end_sec
Windows == {w \in (0..MaxSec) \X (0..MaxSec) : w[1] <= w[2]}

\* the relevant windows of a record: disjoint and in increasing order
RECURSIVE WindowListsOfLen(_)
WindowListsOfLen(n) ==
    IF n = 0 THEN {<<>>}
    ELSE UNION {{Append(l, w) :
                    w \in {x \in Windows : l = <<>> \/ x[1] > l[Len(l)][2]}} :
                l \in WindowListsOfLen(n - 1)}

WindowLists == UNION {WindowListsOfLen(n) : n \in 1..MaxWin}

NoCall == [op |-> "none"]

(***************************************************************************)
(* SpecSpan: get_span_labels applied to every bounded input on a            *)
(* constructed dataset object.                                              *)
(***************************************************************************)
SpanObjects ==
    {StartEndDataset_init([DefaultParams EXCEPT !.span_loss_type = t,
                                                !.max_windows = m,
                                                !.clip_len = c], <<>>).self :
        t \in SpanLossTypes, m \in MaxWindowsVals, c \in ClipLens}

InitSpan ==
    /\ pc = "ready"
    /\ self \in SpanObjects
    /\ data = <<>>
    /\ loaded = <<>>
    /\ ret = NoCall

\* one call on the fresh object: the result depends on the arguments only
CallGetSpanLabels ==
    /\ pc = "ready"
    /\ ret = NoCall
    /\ \E windows \in WindowLists, ctx_l \in CtxLens,
          r \in StreamsBelow(MaxWin - 1, MaxWin) :
          LET res == get_span_labels(self, windows, ctx_l, r)
          IN ret' = [op |-> "get_span_labels", windows |-> windows,
                     ctx_l |-> ctx_l, exc |-> res.exc,
                     span_labels |-> res.windows, lengths |-> res.lengths,
                     arg |-> res.arg]
    /\ UNCHANGED <<pc, self, data, loaded>>

NextSpan == CallGetSpanLabels

SpecSpan == InitSpan /\ [][NextSpan]_vars

SpanCall == ret.op = "get_span_labels"

\* C2: get_span_labels returns max_windows spans for a list longer than
\* max_windows and len(windows) spans otherwise, under "l1" and under "ce",
\* and as many raw lengths as spans.
C2_SpanCount ==
    (SpanCall /\ self.span_loss_type \in {"l1", "ce"}) =>
        /\ ret.exc = "none"
        /\ Len(ret.span_labels) =
              (IF Len(ret.windows) > self.max_windows
               THEN self.max_windows ELSE Len(ret.windows))
        /\ Len(ret.lengths) = Len(ret.span_labels)

\* a list longer than max_windows was cut to max_windows spans
C2_Witness ==
    /\ SpanCall
    /\ self.span_loss_type = "ce"
    /\ Len(ret.windows) > self.max_windows
    /\ ret.exc = "none"
    /\ Len(ret.span_labels) = self.max_windows

\* C3: under "ce" every returned window [start, end] has start <= end and
\* both bounds in [0, ctx_l), for every input window with
\* 0 <= start_sec <= end_sec and every ctx_l >= 1.
C3_CeBounds ==
    (SpanCall /\ self.span_loss_type = "ce" /\ ret.exc = "none") =>
        \A i \in 1..Len(ret.span_labels) :
            /\ ret.span_labels[i][1] <= ret.span_labels[i][2]
            /\ 0 <= ret.span_labels[i][1] /\ ret.span_labels[i][1] < ret.ctx_l
            /\ 0 <= ret.span_labels[i][2] /\ ret.span_labels[i][2] < ret.ctx_l

(***************************************************************************)
(* SpecSaliency: the three saliency builders applied to every bounded       *)
(* input on a constructed dataset object.                                   *)
(***************************************************************************)
\* one row of annotator scores per relevant clip (three annotators)
ScoreRows == {<<0, 0, 0>>, <<1, 0, 2>>, <<2, 1, 0>>}

\* one row of annotator marks (1..5) per clip of the importance curve
TvsumRows == {<<1, 1>>, <<3, 2>>, <<2, 3>>}

\* relevant clip ids: increasing, some of them beyond the last clip
ClipIds == 0..(MaxCtx + 1)

RECURSIVE RelListsOfLen(_)
RelListsOfLen(n) ==
    IF n = 0 THEN {<<>>}
    ELSE UNION {{Append(l, c) :
                    c \in {x \in ClipIds : l = <<>> \/ x > l[Len(l)]}} :
                l \in RelListsOfLen(n - 1)}

RelLists == UNION {RelListsOfLen(n) : n \in 0..MaxRel}

ScoreLists(n) == [1..n -> ScoreRows]

LabelCurves == UNION {[1..n -> TvsumRows] : n \in 1..(MaxCtx + 1)}

\* the default max_n of get_saliency_labels_sub_as_query (line 187)
SubMaxN == 2
\* the default max_n of get_saliency_labels_all and _all_tvsum (lines 243, 289)
AllMaxN == 1

SaliencyObjects ==
    {StartEndDataset_init([DefaultParams EXCEPT !.clip_len = c], <<>>).self :
        c \in ClipLens}

InitSaliency ==
    /\ pc = "ready"
    /\ self \in SaliencyObjects
    /\ data = <<>>
    /\ loaded = <<>>
    /\ ret = NoCall

CallSubAsQuery ==
    /\ pc = "ready"
    /\ ret = NoCall
    /\ \E gt_window \in Windows, ctx_l \in CtxLens, max_n \in {SubMaxN},
          r \in Streams(2 * SubMaxN) :
          LET res == get_saliency_labels_sub_as_query(self, gt_window, ctx_l,
                                                      max_n, r)
          IN ret' = [op |-> "sub_as_query", gt_window |-> gt_window,
                     ctx_l |-> ctx_l, max_n |-> max_n, exc |-> res.exc,
                     pos |-> res.pos, neg |-> res.neg,
                     score_array |-> res.score_array]
    /\ UNCHANGED <<pc, self, data, loaded>>

CallAll ==
    /\ pc = "ready"
    /\ ret = NoCall
    /\ \E rel_clip_ids \in RelLists, ctx_l \in CtxLens, max_n \in {AllMaxN},
          add_easy_negative \in BOOLEAN, r \in Streams(2 * AllMaxN) :
          \E scores \in ScoreLists(Len(rel_clip_ids)) :
          \E sort_indices \in ArgSorts(all_agg_scores(scores)) :
          LET res == get_saliency_labels_all(rel_clip_ids, scores, ctx_l, max_n,
                                             add_easy_negative, sort_indices, r)
          IN ret' = [op |-> "all", rel_clip_ids |-> rel_clip_ids,
                     scores |-> scores, ctx_l |-> ctx_l, max_n |-> max_n,
                     add_easy_negative |-> add_easy_negative,
                     exc |-> res.exc, pos |-> res.pos, neg |-> res.neg,
                     score_array |-> res.score_array]
    /\ UNCHANGED <<pc, self, data, loaded>>

CallAllTvsum ==
    /\ pc = "ready"
    /\ ret = NoCall
    /\ \E labels \in LabelCurves, ctx_l \in CtxLens, max_n \in {AllMaxN},
          add_easy_negative \in BOOLEAN :
          \E sort_indices \in ArgSorts(tvsum_agg_scores(labels, ctx_l)) :
          LET res == get_saliency_labels_all_tvsum(labels, ctx_l, max_n,
                         add_easy_negative, sort_indices,
                         [stream |-> <<0>>, pos |-> 0])
          IN ret' = [op |-> "all_tvsum", labels |-> labels, ctx_l |-> ctx_l,
                     max_n |-> max_n, add_easy_negative |-> add_easy_negative,
                     exc |-> res.exc, pos |-> res.pos, neg |-> res.neg,
                     score_array |-> res.score_array]
    /\ UNCHANGED <<pc, self, data, loaded>>

NextSaliency == CallSubAsQuery \/ CallAll \/ CallAllTvsum

SpecSaliency == InitSaliency /\ [][NextSaliency]_vars

SaliencyCall == ret.op \in {"sub_as_query", "all", "all_tvsum"}

Returned == ret.exc = "none"

\* the arguments __getitem__ passes (lines 163-172): the defaults of max_n and
\* add_easy_negative
AsInvoked ==
    \/ ret.op = "sub_as_query" /\ ret.max_n = SubMaxN
    \/ ret.op = "all" /\ ret.max_n = AllMaxN /\ ret.add_easy_negative
    \/ ret.op = "all_tvsum" /\ ret.max_n = AllMaxN /\ ~ret.add_easy_negative

\* C1: every index of the positive and of the negative list returned by a
\* saliency builder is in [0, ctx_l), for every ctx_l >= 1 and every
\* annotation input.
C1_IndicesInRange ==
    (SaliencyCall /\ Returned) =>
        /\ \A i \in 1..Len(ret.pos) : 0 <= ret.pos[i] /\ ret.pos[i] < ret.ctx_l
        /\ \A i \in 1..Len(ret.neg) : 0 <= ret.neg[i] /\ ret.neg[i] < ret.ctx_l

\* C4: the dense score array returned by a saliency builder has length ctx_l.
C4_ScoreArrayLength ==
    (SaliencyCall /\ Returned) => Len(ret.score_array) = ret.ctx_l

\* C5 as stated: as invoked by __getitem__, the positive and the negative list
\* each have 2*max_n entries.
C5_WidthTwiceMaxN ==
    (SaliencyCall /\ AsInvoked /\ Returned) =>
        /\ Len(ret.pos) = 2 * ret.max_n
        /\ Len(ret.neg) = 2 * ret.max_n

\* C5 amended: as invoked by __getitem__, a builder that returns gives lists of
\* a width fixed per variant: max_n = 2 for the subset-query variant,
\* 2*max_n = 2 for the full-annotation variant, max_n = 1 for the
\* summarization variant.
C5_WidthPerVariant ==
    (SaliencyCall /\ AsInvoked /\ Returned) =>
        LET width == IF ret.op = "all" THEN 2 * ret.max_n ELSE ret.max_n
        IN Len(ret.pos) = width /\ Len(ret.neg) = width

\* the subset-query variant returned two positives for a one-clip window
C5_Witness ==
    /\ ret.op = "sub_as_query"
    /\ AsInvoked
    /\ Returned
    /\ sub_gt_st(self, ret.gt_window, ret.ctx_l) =
          sub_gt_ed(self, ret.gt_window, ret.ctx_l)
    /\ Len(ret.pos) = SubMaxN
    /\ Len(ret.pos) # 2 * ret.max_n

\* the number of clips outside [gt_st, gt_ed]
SubNegPoolSize ==
    ret.ctx_l - (sub_gt_ed(self, ret.gt_window, ret.ctx_l)
                 - sub_gt_st(self, ret.gt_window, ret.ctx_l) + 1)

\* the number of clips of range(ctx_l) that are not relevant clip ids
AllNegPoolSize ==
    Cardinality((0..(ret.ctx_l - 1)) \ Elems(ret.rel_clip_ids))

DuplicatesHalf(l) ==
    /\ Len(l) % 2 = 0
    /\ SubSeq(l, 1, Len(l) \div 2) = SubSeq(l, Len(l) \div 2 + 1, Len(l))

\* C6: when the pool of negatives has fewer than max_n members the builder
\* returns normally with the hard set duplicated: the full-annotation builder
\* (here with every relevant id inside the video) and the subset-query
\* builder.
C6_SmallPoolReturns ==
    /\ (ret.op = "all" /\ ret.add_easy_negative /\ ret.rel_clip_ids # <<>>
        /\ (\A i \in 1..Len(ret.rel_clip_ids) : ret.rel_clip_ids[i] < ret.ctx_l)
        /\ AllNegPoolSize < ret.max_n)
          => (Returned /\ DuplicatesHalf(ret.pos) /\ DuplicatesHalf(ret.neg))
    /\ (ret.op = "sub_as_query" /\ SubNegPoolSize < ret.max_n) => Returned

\* C7: get_saliency_labels_all returns for every annotation that has relevant
\* clip ids >= ctx_l, with a dense array that holds every such id and hard
\* indices no larger than ctx_l-1.
C7_OutOfRangeIdsReturn ==
    (ret.op = "all" /\ \E i \in 1..Len(ret.rel_clip_ids) :
                          ret.rel_clip_ids[i] >= ret.ctx_l) =>
        /\ Returned
        /\ \A i \in 1..Len(ret.rel_clip_ids) :
              ret.rel_clip_ids[i] < Len(ret.score_array)
        /\ ret.pos[1] <= ret.ctx_l - 1
        /\ ret.neg[1] <= ret.ctx_l - 1

(***************************************************************************)
(* The environment of the dataset: the annotation file and the feature      *)
(* caches.                                                                  *)
(***************************************************************************)
\* largest number of records of an annotation file
MaxRecords == 2
\* number of seeds the caller seeds the generator with
NSeeds == 2

\* number of clips stored for a video id, number of tokens stored for a
\* query id (the "features" / "last_hidden_state" arrays of the caches)
VideoLen == [va |-> MaxCtx - 1, vb |-> MaxCtx + 1]
QueryLen == [qa |-> MaxCtx - 1, qb |-> MaxCtx + 1]

\* MaxWin disjoint windows of lengths 1, 2, ..., in increasing order
ManyWindows == [i \in 1..MaxWin |-> <<i * (i - 1), i * i>>]

\* records of a moment-retrieval file: one window, and more windows than any
\* max_windows; no two clips of a record have the same summed score, so
\* np.argsort has one outcome
HlRecords ==
    {[qid |-> "qa", vid |-> "va", domain |-> NoneStr, label |-> None,
      relevant_windows |-> Some(<<<<0, 2>>>>),
      relevant_clip_ids |-> Some(<<0>>),
      saliency_scores |-> Some(<<<<1, 0, 2>>>>)],
     [qid |-> "qb", vid |-> "vb", domain |-> NoneStr, label |-> None,
      relevant_windows |-> Some(ManyWindows),
      relevant_clip_ids |-> Some(<<0, 1>>),
      saliency_scores |-> Some(<<<<2, 1, 0>>, <<0, 0, 1>>>>)]}

\* records of a summarization file
TvsumRecords ==
    {[qid |-> "qa", vid |-> "va", domain |-> "BK",
      label |-> Some(<<<<1, 1>>, <<3, 2>>>>),
      relevant_windows |-> None, relevant_clip_ids |-> None,
      saliency_scores |-> None],
     [qid |-> "qb", vid |-> "vb", domain |-> "BT",
      label |-> Some(<<<<3, 2>>, <<5, 5>>, <<1, 1>>>>),
      relevant_windows |-> None, relevant_clip_ids |-> None,
      saliency_scores |-> None]}

\* the files: up to MaxRecords records of one kind, no query id twice
AnnotationFiles ==
    {f \in UNION {[1..n -> HlRecords] \cup [1..n -> TvsumRecords] :
                     n \in 1..MaxRecords} :
        \A i, j \in 1..Len(f) : i # j => f[i].qid # f[j].qid}

\* random.seed(s): the draw stream of seed s, read from its start
SeedStreamLen == MaxWin + 3
seed(s) ==
    LET m == Cardinality(DrawVals)
    IN [stream |-> [k \in 1..SeedStreamLen |-> (s * k) % m], pos |-> 0]

(***************************************************************************)
(* StartEndDataset.__getitem__(index).                                      *)
(***************************************************************************)
\* _get_query_feat_by_qid (lines 338-352): the number of rows of the feature
get_query_feat_by_qid(obj, qid) ==
    IF obj.dset_name = "tvsum" THEN [kind |-> "token", rows |-> QueryLen[qid]]
    ELSE IF obj.q_feat_type = "last_hidden_state"
    THEN [kind |-> obj.q_feat_type, rows |-> Min(QueryLen[qid], obj.max_q_l)]
    ELSE [kind |-> obj.q_feat_type, rows |-> 0]

\* what the tokenizer makes of the query of a record: the number of tokens of
\* the sentence (pad_start_idx of the sentence) and of its noun phrase
QueryTokens ==
    [qa |-> [sen |-> MaxCtx - 1, noun |-> MaxCtx - 2],
     qb |-> [sen |-> MaxCtx + 1, noun |-> MaxCtx + 1]]

\* a feature of kind k with n rows, and a call that raised e
Feat(k, n) == [exc |-> "none", kind |-> k, rows |-> n]
NoFeat(e) == [exc |-> e, kind |-> NoneStr, rows |-> 0]

\* q_feat[:self.max_q_l] in the sequence regime (lines 368-369 and alike)
truncate_rows(obj, n) ==
    IF obj.q_feat_type = "last_hidden_state" THEN Min(n, obj.max_q_l) ELSE n

\* _get_clip_text_feat (lines 354-376): the hidden states of the sentence up
\* to the padding; on tvsum line 356 reads the undefined name qid.
\* Normalisation and random_drop_rows keep the number of rows.
get_clip_text_feat(obj, query) ==
    IF obj.dset_name = "tvsum" THEN NoFeat("NameError")
    ELSE Feat(obj.q_feat_type, truncate_rows(obj, query.sen))

\* _get_global_local_features (lines 378-415): r * sentence feature +
\* (1-r) * noun-phrase feature, one row
get_global_local_features(obj, query) ==
    IF obj.dset_name = "tvsum" THEN NoFeat("NameError")
    ELSE Feat(obj.q_feat_type, 1)

\* _get_hidden_features (lines 417-472): the truncated hidden states of the
\* sentence with the one-row ensemble feature concatenated below them;
\* final_feat is assigned only when normalize_t holds (line 464)
get_hidden_features(obj, query) ==
    IF obj.dset_name = "tvsum" THEN NoFeat("NameError")
    ELSE IF ~obj.normalize_t THEN NoFeat("UnboundLocalError")
    ELSE Feat(obj.q_feat_type, truncate_rows(obj, query.sen) + 1)

\* _get_global_local_hidden_states (lines 474-530)
get_global_local_hidden_states(obj, query) ==
    IF obj.dset_name = "tvsum" THEN NoFeat("NameError")
    ELSE Feat(obj.q_feat_type, truncate_rows(obj, truncate_rows(obj, query.sen)))

\* _get_only_noun_hidden_states (lines 532-574): the hidden states of the
\* noun phrase up to its padding
get_only_noun_hidden_states(obj, query) ==
    IF obj.dset_name = "tvsum" THEN NoFeat("NameError")
    ELSE Feat(obj.q_feat_type, truncate_rows(obj, query.noun))

\* lines 113-140: the query feature of the example; feat is None when no
\* branch stores the key "query_feat"
getitem_query_feat(obj, qid, query) ==
    LET q == IF obj.use_cliptext = None
             THEN [exc |-> "none"] @@ get_query_feat_by_qid(obj, qid)
             ELSE IF obj.text_type = None THEN NoFeat("AttributeError")
             ELSE IF obj.text_type = <<"org_hidden_state">>
             THEN get_clip_text_feat(obj, query)
             ELSE IF obj.text_type = <<"global_local_features">>
             THEN get_global_local_features(obj, query)
             ELSE IF obj.text_type = <<"hidden_features">>
             THEN get_hidden_features(obj, query)
             ELSE IF obj.text_type = <<"global_local_hidden_state">>
             THEN get_global_local_hidden_states(obj, query)
             ELSE IF obj.text_type = <<"only_local_hidden_state">>
             THEN get_only_noun_hidden_states(obj, query)
             ELSE NoFeat("none")
    IN [exc |-> q.exc,
        feat |-> IF q.exc # "none" \/ q.kind = NoneStr THEN None
                 ELSE Some([kind |-> q.kind, rows |-> q.rows])]

\* lines 143-147: the context length
getitem_ctx_l(obj, meta) ==
    IF obj.use_video THEN Min(VideoLen[meta.vid], obj.max_v_l) ELSE obj.max_v_l

\* the scores np.argsort is applied to on the label path the call takes
getitem_agg_scores(obj, meta) ==
    IF ~obj.load_labels THEN <<>>
    ELSE IF obj.dset_name = "tvsum"
    THEN IF meta.label = None THEN <<>>
         ELSE tvsum_agg_scores(Get(meta.label), getitem_ctx_l(obj, meta))
    ELSE IF "subs_train" \in PathWords[obj.data_path]
            \/ meta.saliency_scores = None
    THEN <<>>
    ELSE all_agg_scores(Get(meta.saliency_scores))

NoLabels(w) ==
    [exc |-> "none", span_labels |-> None, lengths |-> None, pos |-> None,
     neg |-> None, score_array |-> None, windows |-> w]

LabelsFailed(e, w) ==
    [exc |-> e, span_labels |-> None, lengths |-> None, pos |-> None,
     neg |-> None, score_array |-> None, windows |-> w]

\* lines 167-172: the saliency builder chosen by the data path; the window of
\* line 172 is read from the list get_span_labels has left
getitem_hl_saliency(obj, meta, ctx_l, span, sort_indices) ==
    IF "subs_train" \notin PathWords[obj.data_path]
    THEN get_saliency_labels_all(Get(meta.relevant_clip_ids),
                                 Get(meta.saliency_scores), ctx_l, AllMaxN, TRUE,
                                 sort_indices, span.rng)
    ELSE get_saliency_labels_sub_as_query(obj, span.arg[1], ctx_l, SubMaxN,
                                          span.rng)

getitem_hl_labels(span, sal) ==
    IF sal.exc # "none" THEN LabelsFailed(sal.exc, Some(span.arg))
    ELSE [exc |-> "none", span_labels |-> Some(span.windows),
          lengths |-> Some(span.lengths), pos |-> Some(sal.pos),
          neg |-> Some(sal.neg), score_array |-> Some(sal.score_array),
          windows |-> Some(span.arg)]

\* lines 159-172; windows is meta["relevant_windows"] as the call leaves it
getitem_labels(obj, meta, ctx_l, r, sort_indices) ==
    IF ~obj.load_labels THEN NoLabels(meta.relevant_windows)
    ELSE IF obj.dset_name = "tvsum"
    THEN IF meta.label = None
         THEN LabelsFailed("KeyError", meta.relevant_windows)
         ELSE The({[exc |-> sal.exc, span_labels |-> Some(<<<<0, 0>>>>),
                    lengths |-> None, pos |-> Some(sal.pos),
                    neg |-> Some(sal.neg),
                    score_array |-> Some(sal.score_array),
                    windows |-> meta.relevant_windows] :
                      sal \in {get_saliency_labels_all_tvsum(Get(meta.label),
                                   ctx_l, AllMaxN, FALSE, sort_indices, r)}})
    ELSE IF meta.relevant_windows = None
    THEN LabelsFailed("KeyError", None)
    ELSE The({IF span.exc # "none" THEN LabelsFailed(span.exc, Some(span.arg))
              ELSE The({getitem_hl_labels(span, sal) :
                           sal \in {getitem_hl_saliency(obj, meta, ctx_l, span,
                                                        sort_indices)}}) :
                 span \in {get_span_labels(obj, Get(meta.relevant_windows),
                                           ctx_l, r)}})

\* lines 174-183: the first threshold a raw length does not exceed
RECURSIVE first_class(_, _, _)
first_class(m_vals, l, m_cls) ==
    IF m_cls >= Len(m_vals) THEN <<>>
    ELSE IF l <= m_vals[m_cls + 1] THEN <<m_cls>>
    ELSE first_class(m_vals, l, m_cls + 1)

\* the last threshold a raw length does not exceed
class_of_last(m_vals, l) ==
    LET fits == {j \in 0..(Len(m_vals) - 1) : l <= m_vals[j + 1]}
    IN IF fits = {} THEN <<>> ELSE <<CHOOSE j \in fits : \A k \in fits : k <= j>>

\* the inner loop of lines 177-180 for one raw length: what it appends
class_of(m_vals, l) == first_class(m_vals, l, 0)

RECURSIVE moment_classes(_, _)
moment_classes(m_vals, lengths) ==
    IF lengths = <<>> THEN <<>>
    ELSE class_of(m_vals, Head(lengths))
             \o moment_classes(m_vals, Tail(lengths))

\* lines 174-181 without the assertion of line 183
getitem_moment_class_unchecked(obj, lab) ==
    IF obj.m_vals = None THEN [exc |-> "none", moment_class |-> None]
    ELSE IF lab.lengths = None
    THEN [exc |-> "UnboundLocalError", moment_class |-> None]
    ELSE [exc |-> "none",
          moment_class |-> Some(moment_classes(Get(obj.m_vals), Get(lab.lengths)))]

getitem_moment_class(obj, lab) ==
    IF obj.m_vals = None THEN [exc |-> "none", moment_class |-> None]
    ELSE IF lab.lengths = None
    THEN [exc |-> "UnboundLocalError", moment_class |-> None]
    ELSE IF Len(moment_classes(Get(obj.m_vals), Get(lab.lengths)))
               # Len(Get(lab.lengths))
    THEN [exc |-> "AssertionError", moment_class |-> None]
    ELSE [exc |-> "none",
          moment_class |-> Some(moment_classes(Get(obj.m_vals), Get(lab.lengths)))]

\* line 185 and what leads to it: the example or the exception, and self.data
\* as the call leaves it (meta is self.data[index], the list object itself)
getitem_result(obj, dat, index, meta, ctx_l, lab, cls) ==
    LET raised == IF lab.exc # "none" THEN lab.exc ELSE cls.exc
    IN [exc |-> raised,
        data |-> [dat EXCEPT ![index + 1].relevant_windows = lab.windows],
        lengths |-> IF raised # "none" THEN None ELSE lab.lengths,
        model_inputs |->
            IF raised # "none" THEN None
            ELSE Some(
                 [query_feat |-> getitem_query_feat(obj, meta.qid,
                                                    QueryTokens[meta.qid]).feat,
                  video_feat |-> ctx_l,
                  span_labels |-> lab.span_labels,
                  saliency_pos_labels |-> lab.pos,
                  saliency_neg_labels |-> lab.neg,
                  saliency_all_labels |-> lab.score_array,
                  moment_class |-> cls.moment_class])]

\* the query feature comes first: a call that fails on it has built no
\* labels and has left self.data alone
getitem(obj, dat, index, r, sort_indices) ==
    The({IF getitem_query_feat(obj, meta.qid, QueryTokens[meta.qid]).exc # "none"
         THEN [exc |-> getitem_query_feat(obj, meta.qid,
                                          QueryTokens[meta.qid]).exc,
               data |-> dat, lengths |-> None, model_inputs |-> None]
         ELSE The({The({The({getitem_result(obj, dat, index, meta, ctx_l, lab, cls) :
                           cls \in {getitem_moment_class(obj, lab)}}) :
                      lab \in {getitem_labels(obj, meta, ctx_l, r, sort_indices)}}) :
                 ctx_l \in {getitem_ctx_l(obj, meta)}}) :
            meta \in {dat[index + 1]}})

(***************************************************************************)
(* Spec: the life of one dataset object.  The constructor runs once on an   *)
(* annotation file; then examples are built, each call made right after     *)
(* the caller seeded the generator.                                         *)
(***************************************************************************)
\* values of m_classes: absent, "[1,3]", "[1, 2]" and, without its brackets,
\* "1,3"
MClassesTexts ==
    {None,
     Some(<<"[", "1", ",", "3", "]">>),
     Some(<<"[", "1", ",", " ", "2", "]">>),
     Some(<<"1", ",", "3">>)}

\* use_cliptext "<clip model> <text type>"
UseClipText(text_type) == Some(<<"ViT-B/32", " ">> \o text_type)

ParamChoices ==
    {[DefaultParams EXCEPT !.dset_name = n[1], !.dset_domain = n[2],
                           !.data_path = d[1], !.txt_drop_ratio = d[2],
                           !.q_feat_type = q, !.span_loss_type = t,
                           !.load_labels = ll, !.max_windows = mw,
                           !.m_classes = mc, !.use_cliptext = u] :
        n \in {<<"hl", NoneStr>>, <<"tvsum", "BK">>, <<"tvsum", "XX">>},
        d \in {<<"hl_train", <<0, 1>>>>, <<"subs_train", <<1, 2>>>>,
               <<"hl_val", <<0, 1>>>>, <<"hl_val", <<1, 2>>>>},
        q \in {"pooler_output", "last_hidden_state", "cls_token"},
        t \in SpanLossTypes, ll \in BOOLEAN, mw \in MaxWindowsVals,
        mc \in MClassesTexts, u \in {None, UseClipText(<<"hidden_features">>)}}

Init ==
    /\ pc = "new"
    /\ self = None
    /\ data = <<>>
    /\ loaded = <<>>
    /\ ret = NoCall

\* StartEndDataset(...): the constructor returns the object or raises
Construct ==
    /\ pc = "new"
    /\ \E p \in ParamChoices, file \in AnnotationFiles :
          LET res == StartEndDataset_init(p, file)
          IN /\ pc' = IF res.exc = "none" THEN "ready" ELSE "failed"
             /\ self' = res.self
             /\ data' = res.data
             /\ loaded' = res.data
             /\ ret' = [op |-> "init", exc |-> res.exc, params |-> p]

\* random.seed(s); dataset[index]
GetItem ==
    /\ pc = "ready"
    /\ \E index \in 0..(Len(data) - 1), s \in 0..(NSeeds - 1) :
          \E sort_indices \in ArgSorts(getitem_agg_scores(self, data[index + 1])) :
          \E res \in {getitem(self, data, index, seed(s), sort_indices)} :
             /\ data' = res.data
             /\ ret' = [op |-> "getitem", index |-> index, seed |-> s,
                        exc |-> res.exc, model_inputs |-> res.model_inputs,
                        lengths |-> res.lengths]
    /\ UNCHANGED <<pc, self, loaded>>

Next == Construct \/ GetItem

Spec == Init /\ [][Next]_vars

ValidConfig ==
    /\ self.span_loss_type \in {"l1", "ce"}
    /\ self.q_feat_type \in Q_FEAT_TYPES

\* C8: a span regime other than "l1"/"ce" or a query-feature kind outside
\* Q_FEAT_TYPES makes the constructor fail, so no object exists and no
\* example is built under such a configuration.
C8_InvalidConfigFailsAtInit ==
    /\ pc = "ready" => ValidConfig
    /\ (ret.op = "getitem" /\ ret.exc = "none") => ValidConfig

\* C9: after any sequence of __getitem__ calls every record of self.data is
\* as it was right after loading.
C9_DataUnchanged == pc = "ready" => data = loaded

ExampleLabels(r) ==
    <<Get(r.model_inputs).span_labels, r.lengths,
      Get(r.model_inputs).saliency_pos_labels,
      Get(r.model_inputs).saliency_neg_labels>>

\* C10: two __getitem__ calls on the same index, each started from the same
\* seed, return the same span labels, raw lengths and positive/negative
\* indices (here: the second call following the first).
C10_Reproducible ==
    [][(/\ ret.op = "getitem" /\ ret'.op = "getitem"
        /\ ret'.index = ret.index /\ ret'.seed = ret.seed
        /\ ret.exc = "none" /\ ret'.exc = "none")
          => ExampleLabels(ret') = ExampleLabels(ret)]_vars

\* the thresholds are configured on the object
Bucketing == pc = "ready" /\ self.m_vals # None

GetItemCall == ret.op = "getitem"

\* the windows get_span_labels kept in the last call: the head of the
\* record's list as the call left it
RetainedWindows ==
    FirstN(Get(data[ret.index + 1].relevant_windows), self.max_windows)

RawLength(w) == w[2] - w[1]

\* the positions of the thresholds that a raw length does not exceed
Fitting(l) == {j \in 0..(Len(Get(self.m_vals)) - 1) : l <= Get(self.m_vals)[j + 1]}

\* the call took the path of line 166: labels of a moment-retrieval record
SpanPath ==
    /\ self.load_labels
    /\ self.dset_name # "tvsum"
    /\ data[ret.index + 1].relevant_windows # None

\* C12: with thresholds configured, an example that __getitem__ returns has
\* as many moment classes as spans, and a call whose retained spans include
\* one longer than every threshold raises instead of returning.
C12_CountOrError ==
    (Bucketing /\ GetItemCall) =>
        /\ ret.exc = "none" =>
              Len(Get(Get(ret.model_inputs).moment_class))
                  = Len(Get(Get(ret.model_inputs).span_labels))
        /\ (SpanPath /\ \E i \in 1..Len(RetainedWindows) :
                            Fitting(RawLength(RetainedWindows[i])) = {})
              => ret.exc # "none"

\* a call failed on the assertion of line 183: a retained span is longer
\* than every threshold
C12_Witness ==
    /\ Bucketing /\ GetItemCall /\ SpanPath
    /\ ret.exc = "AssertionError"
    /\ \E i \in 1..Len(RetainedWindows) :
          Fitting(RawLength(RetainedWindows[i])) = {}

\* the smallest member of a non-empty set of naturals
Least(S) == CHOOSE j \in S : \A k \in S : j <= k

\* C14: each retained span has the raw length end_sec - start_sec, and a span
\* whose raw length does not exceed the largest threshold gets the smallest
\* position i with l <= m_vals[i] as its class, the classes being in the
\* order of the retained spans.
C14_FirstThreshold ==
    (Bucketing /\ GetItemCall /\ ret.exc = "none") =>
        LET lens == Get(ret.lengths)
            classes == Get(Get(ret.model_inputs).moment_class)
        IN /\ Len(lens) = Len(RetainedWindows)
           /\ \A i \in 1..Len(lens) :
                 /\ lens[i] = RawLength(RetainedWindows[i])
                 /\ Fitting(lens[i]) # {} =>
                       /\ i <= Len(classes)
                       /\ classes[i] = Least(Fitting(lens[i]))

\* two retained spans of different lengths got two different classes, one
\* of them beyond the first threshold
C14_Witness ==
    /\ Bucketing /\ GetItemCall /\ ret.exc = "none"
    /\ Len(Get(ret.lengths)) = 2
    /\ Get(Get(ret.model_inputs).moment_class)[1]
          # Get(Get(ret.model_inputs).moment_class)[2]

\* C17: with thresholds configured __getitem__ completes on the label paths
\* that do not call get_span_labels: the summarization dataset and
\* load_labels = False.
C17_LengthsDefinedOnEveryPath ==
    (Bucketing /\ GetItemCall /\ (self.dset_name = "tvsum" \/ ~self.load_labels))
        => (ret.exc = "none" /\ Get(ret.model_inputs).moment_class # None)

\* gt_st and gt_ed as the subset-query variant defines them
WindowEd ==
    Max(0, Min(ret.gt_window[2] \div self.clip_len, ret.ctx_l) - 1)
WindowSt == Min(ret.gt_window[1] \div self.clip_len, WindowEd)

Distinct(l) == \A i, j \in 1..Len(l) : i # j => l[i] # l[j]

\* C15: a subset-query call that returns gives max_n distinct positives
\* inside [gt_st, gt_ed] when gt_st < gt_ed and the single index twice when
\* gt_st = gt_ed, max_n distinct negatives outside [gt_st, gt_ed], and a
\* dense array that is 1 exactly at gt_st..gt_ed.
C15_SubAsQueryLabels ==
    (ret.op = "sub_as_query" /\ Returned) =>
        /\ WindowSt < WindowEd =>
              /\ Len(ret.pos) = ret.max_n
              /\ Distinct(ret.pos)
              /\ \A i \in 1..Len(ret.pos) :
                    WindowSt <= ret.pos[i] /\ ret.pos[i] <= WindowEd
        /\ WindowSt = WindowEd => ret.pos = <<WindowSt, WindowSt>>
        /\ Len(ret.neg) = ret.max_n
        /\ Distinct(ret.neg)
        /\ \A i \in 1..Len(ret.neg) :
              /\ 0 <= ret.neg[i] /\ ret.neg[i] < ret.ctx_l
              /\ ret.neg[i] < WindowSt \/ ret.neg[i] > WindowEd
        /\ Len(ret.score_array) = ret.ctx_l
        /\ \A i \in 1..Len(ret.score_array) :
              ret.score_array[i] =
                  (IF WindowSt <= i - 1 /\ i - 1 <= WindowEd THEN 1 ELSE 0)

\* a window of several clips, with positives sampled inside it
C15_Witness ==
    /\ ret.op = "sub_as_query" /\ Returned
    /\ WindowSt < WindowEd
    /\ ret.pos[1] # ret.pos[2]
    /\ ret.score_array[WindowEd + 1] = 1

\* the summed annotator scores of the relevant clips of the call
SummedScores == [i \in 1..Len(ret.scores) |-> SumSeq(ret.scores[i])]

\* the clamped ids of the relevant clips with the largest / smallest sum
TopClips ==
    {Min(ret.rel_clip_ids[i], ret.ctx_l - 1) :
        i \in {k \in 1..Len(ret.rel_clip_ids) :
                  \A j \in 1..Len(ret.rel_clip_ids) :
                      SummedScores[j] <= SummedScores[k]}}
BottomClips ==
    {Min(ret.rel_clip_ids[i], ret.ctx_l - 1) :
        i \in {k \in 1..Len(ret.rel_clip_ids) :
                  \A j \in 1..Len(ret.rel_clip_ids) :
                      SummedScores[k] <= SummedScores[j]}}

\* C16: with max_n = 1 and a non-empty relevant clip list, the hard positive
\* of the full-annotation variant is min(c, ctx_l-1) for a relevant clip c of
\* maximal summed score, the hard negative the same for a clip of minimal
\* summed score, and the two coincide for a single relevant clip.
C16_HardFromExtremes ==
    (ret.op = "all" /\ Returned /\ ret.max_n = 1 /\ ret.rel_clip_ids # <<>>) =>
        /\ ret.pos[1] \in TopClips
        /\ ret.neg[1] \in BottomClips
        /\ Len(ret.rel_clip_ids) = 1 => ret.pos[1] = ret.neg[1]

\* two relevant clips, the first with the larger sum: it is the hard
\* positive and the second the hard negative
C16_Witness ==
    /\ ret.op = "all" /\ Returned /\ ret.max_n = 1
    /\ Len(ret.rel_clip_ids) = 2
    /\ SummedScores[1] > SummedScores[2]
    /\ ret.pos[1] = ret.rel_clip_ids[1]
    /\ ret.neg[1] = ret.rel_clip_ids[2]
    /\ ret.pos[1] # ret.neg[1]

(***************************************************************************)
(* SpecQuery: the query feature of an example, for every text strategy, on  *)
(* a constructed dataset object.                                            *)
(***************************************************************************)
TextTypes ==
    {<<"org_hidden_state">>, <<"global_local_features">>, <<"hidden_features">>,
     <<"global_local_hidden_state">>, <<"only_local_hidden_state">>,
     <<"final_features">>}

\* absent, empty, a clip model alone, and a clip model with a text type
UseClipTexts ==
    {None, Some(<<>>), Some(<<"ViT-B/32">>)} \cup {UseClipText(tt) : tt \in TextTypes}

QueryObjects ==
    {StartEndDataset_init([DefaultParams EXCEPT !.use_cliptext = u,
                                                !.q_feat_type = q,
                                                !.dset_name = n[1],
                                                !.dset_domain = n[2],
                                                !.normalize_t = nt,
                                                !.max_q_l = l], <<>>).self :
        u \in UseClipTexts, q \in Q_FEAT_TYPES,
        n \in {<<"hl", NoneStr>>, <<"tvsum", "BK">>}, nt \in BOOLEAN,
        l \in 1..MaxCtx} \ {None}

\* the token counts of a query: the noun phrase is part of the sentence
Queries == {[sen |-> s, noun |-> k] : s \in 1..(MaxCtx + 1), k \in 1..(MaxCtx + 1)}

InitQuery ==
    /\ pc = "ready"
    /\ self \in QueryObjects
    /\ data = <<>>
    /\ loaded = <<>>
    /\ ret = NoCall

CallQueryFeat ==
    /\ pc = "ready"
    /\ ret = NoCall
    /\ \E qid \in DOMAIN QueryLen, query \in {q \in Queries : q.noun <= q.sen} :
          LET res == getitem_query_feat(self, qid, query)
          IN ret' = [op |-> "query_feat", qid |-> qid, query |-> query,
                     exc |-> res.exc, feat |-> res.feat]
    /\ UNCHANGED <<pc, self, data, loaded>>

NextQuery == CallQueryFeat

SpecQuery == InitQuery /\ [][NextQuery]_vars

\* the text strategies the sequence regime truncates, on the
\* moment-retrieval dataset
SequenceStrategy ==
    /\ self.q_feat_type = "last_hidden_state"
    /\ self.dset_name # "tvsum"
    /\ \/ self.use_cliptext = None
       \/ self.text_type \in {<<"org_hidden_state">>, <<"hidden_features">>,
                               <<"global_local_hidden_state">>,
                               <<"only_local_hidden_state">>}

\* C11: in the sequence regime the query feature of every text strategy has
\* at most max_q_l rows, whatever the number of tokens of the query.
C11_AtMostMaxQL ==
    (ret.op = "query_feat" /\ ret.exc = "none" /\ ret.feat # None
     /\ SequenceStrategy) => Get(ret.feat).rows <= self.max_q_l

(***************************************************************************)
(* start_end_collate(batch).  An example is the dict __getitem__ returns;   *)
(* an absent key of model_inputs is None.                                   *)
(***************************************************************************)
\* largest number of examples of a batch
MaxBatch == 2

\* the rows of a feature of n rows, each row a non-zero vector
feature_rows(n) == [i \in 1..n |-> 1]

RECURSIVE MaxOf(_)
MaxOf(s) == IF s = <<>> THEN 0 ELSE Max(Head(s), MaxOf(Tail(s)))

\* utils.tensor_utils.pad_sequences_1d(sequences, fixed_length=None): the
\* sequences padded with zeros to the longest of them, and the mask that is
\* 1 at the real positions and 0 at the padded ones
pad_sequences_1d(sequences) ==
    LET max_length == MaxOf([i \in 1..Len(sequences) |-> Len(sequences[i])])
    IN [padded |-> [i \in 1..Len(sequences) |->
                       [j \in 1..max_length |->
                           IF j <= Len(sequences[i]) THEN sequences[i][j] ELSE 0]],
        mask |-> [i \in 1..Len(sequences) |->
                     [j \in 1..max_length |->
                         IF j <= Len(sequences[i]) THEN 1 ELSE 0]]]

\* the keys of model_inputs that are absent from some examples
OptionalKeys ==
    {"query_feat", "span_labels", "saliency_pos_labels", "saliency_neg_labels",
     "saliency_all_labels", "moment_class"}

\* line 672: the keys are those of the first example; e["model_inputs"][k]
\* raises KeyError for an example without the key
collate_key_missing(batch) ==
    \E k \in OptionalKeys, i \in 1..Len(batch) :
        batch[1].model_inputs[k] # None /\ batch[i].model_inputs[k] = None

\* lines 678-680: torch.LongTensor of the index lists, which must have one
\* length
collate_indices(batch, k) ==
    LET rows == [i \in 1..Len(batch) |-> Get(batch[i].model_inputs[k])]
    IN IF \E i \in 1..Len(rows) : Len(rows[i]) # Len(rows[1])
       THEN [exc |-> "ValueError", rows |-> <<>>]
       ELSE [exc |-> "none", rows |-> rows]

\* a batched field: the tensor or list, and the mask when the field is a
\* (tensor, mask) pair
Bare(x) == [data |-> x, mask |-> None]
Paired(pad) == [data |-> pad.padded, mask |-> Some(pad.mask)]

\* lines 681-685 with the pair of pad_sequences_1d stored as it is
collate_saliency_all_paired(batch) ==
    Paired(pad_sequences_1d(
        [i \in 1..Len(batch) |-> Get(batch[i].model_inputs.saliency_all_labels)]))

\* lines 681-685: pad_data alone is stored
collate_saliency_all(batch) ==
    Bare(pad_sequences_1d(
        [i \in 1..Len(batch) |->
            Get(batch[i].model_inputs.saliency_all_labels)]).padded)

\* lines 690-691: the fields without a rule of their own
collate_feature(batch, rows) ==
    Paired(pad_sequences_1d([i \in 1..Len(batch) |-> feature_rows(rows[i])]))

\* lines 674-691, one key
collate_key(batch, k) ==
    IF batch[1].model_inputs[k] = None THEN None
    ELSE IF k = "span_labels"
    THEN Some(Bare([i \in 1..Len(batch) |->
                       [spans |-> Get(batch[i].model_inputs.span_labels)]]))
    ELSE IF k \in {"saliency_pos_labels", "saliency_neg_labels"}
    THEN Some(Bare(collate_indices(batch, k).rows))
    ELSE IF k = "saliency_all_labels" THEN Some(collate_saliency_all(batch))
    ELSE IF k = "moment_class"
    THEN Some(Bare([i \in 1..Len(batch) |->
                       [m_cls |-> Get(batch[i].model_inputs.moment_class)]]))
    ELSE Some(collate_feature(batch,
                 [i \in 1..Len(batch) |-> Get(batch[i].model_inputs.query_feat).rows]))

start_end_collate(batch) ==
    IF collate_key_missing(batch)
    THEN [exc |-> "KeyError", batch_meta |-> <<>>, batched_data |-> None]
    ELSE IF \E k \in {"saliency_pos_labels", "saliency_neg_labels"} :
               batch[1].model_inputs[k] # None
               /\ collate_indices(batch, k).exc # "none"
    THEN [exc |-> "ValueError", batch_meta |-> <<>>, batched_data |-> None]
    ELSE [exc |-> "none",
          batch_meta |-> [i \in 1..Len(batch) |-> batch[i].meta],
          batched_data |->
              Some([k \in OptionalKeys |-> collate_key(batch, k)] @@
                   [video_feat |->
                       Some(collate_feature(batch,
                           [i \in 1..Len(batch) |-> batch[i].model_inputs.video_feat]))])]

(***************************************************************************)
(* SpecCollate: start_end_collate applied to every bounded batch.           *)
(***************************************************************************)
\* the dense score array of a video of n clips: zeros, or the scores 3, 1, ...
DenseScores(n) == {zeros(n), [i \in 1..n |-> IF i % 2 = 1 THEN 3 ELSE 1]}

\* an example without labels (load_labels = False)
UnlabelledExample(qid, n) ==
    [meta |-> [qid |-> qid],
     model_inputs |->
        [query_feat |-> Some([kind |-> "last_hidden_state",
                              rows |-> Min(QueryLen[qid], MaxCtx)]),
         video_feat |-> n, span_labels |-> None, saliency_pos_labels |-> None,
         saliency_neg_labels |-> None, saliency_all_labels |-> None,
         moment_class |-> None]]

\* an example with the labels of the full-annotation variant
LabelledExample(qid, n, scores, pos) ==
    [UnlabelledExample(qid, n) EXCEPT
        !.model_inputs.span_labels = Some(<<<<0, 1>>>>),
        !.model_inputs.saliency_pos_labels = Some(pos),
        !.model_inputs.saliency_neg_labels = Some(<<0, 0>>),
        !.model_inputs.saliency_all_labels = Some(scores)]

CollateExamples ==
    {UnlabelledExample(qid, n) : qid \in DOMAIN QueryLen, n \in {1, MaxCtx}}
    \cup UNION {{LabelledExample(qid, n, s, pos) : s \in DenseScores(n)} :
                  qid \in DOMAIN QueryLen, n \in {1, MaxCtx},
                  pos \in {<<0>>, <<0, 0>>}}

Batches == UNION {[1..n -> CollateExamples] : n \in 1..MaxBatch}

InitCollate ==
    /\ pc = "ready"
    /\ self = None
    /\ data = <<>>
    /\ loaded = <<>>
    /\ ret = NoCall

CallCollate ==
    /\ pc = "ready"
    /\ ret = NoCall
    /\ \E batch \in Batches :
          LET res == start_end_collate(batch)
          IN ret' = [op |-> "collate", batch |-> batch, exc |-> res.exc,
                     batch_meta |-> res.batch_meta,
                     batched_data |-> res.batched_data]
    /\ UNCHANGED <<pc, self, data, loaded>>

NextCollate == CallCollate

SpecCollate == InitCollate /\ [][NextCollate]_vars

\* a batch of examples with dense scores was collated
CollatedScores ==
    /\ ret.op = "collate"
    /\ ret.exc = "none"
    /\ ret.batch[1].model_inputs.saliency_all_labels # None

BatchScores ==
    [i \in 1..Len(ret.batch) |-> Get(ret.batch[i].model_inputs.saliency_all_labels)]

LongestScores == MaxOf([i \in 1..Len(BatchScores) |-> Len(BatchScores[i])])

\* row i is the scores of example i followed by zeros up to the longest
ZeroPadded(rows) ==
    /\ Len(rows) = Len(BatchScores)
    /\ \A i \in 1..Len(rows) :
          /\ Len(rows[i]) = LongestScores
          /\ \A j \in 1..LongestScores :
                rows[i][j] = (IF j <= Len(BatchScores[i]) THEN BatchScores[i][j]
                              ELSE 0)

\* mask is 1 at the real positions and 0 at the padded ones
ValidityMask(mask) ==
    /\ Len(mask) = Len(BatchScores)
    /\ \A i \in 1..Len(mask) :
          /\ Len(mask[i]) = LongestScores
          /\ \A j \in 1..LongestScores :
                mask[i][j] = (IF j <= Len(BatchScores[i]) THEN 1 ELSE 0)

\* C13 as stated: the collated dense saliency field is the zero-padded
\* scores together with their validity mask.
C13_PaddedWithMask ==
    CollatedScores =>
        LET out == Get(Get(ret.batched_data).saliency_all_labels)
        IN /\ ZeroPadded(out.data)
           /\ out.mask # None
           /\ ValidityMask(Get(out.mask))

\* C13 amended: the collated dense saliency field is the zero-padded scores
\* alone, with no mask, while the query and video features are
\* (padded, mask) pairs.
C13_PaddedNoMask ==
    CollatedScores =>
        LET out == Get(ret.batched_data)
        IN /\ ZeroPadded(Get(out.saliency_all_labels).data)
           /\ Get(out.saliency_all_labels).mask = None
           /\ Get(out.query_feat).mask # None
           /\ Get(out.video_feat).mask # None

\* two examples with dense scores of different lengths: the shorter one was
\* padded
C13_Witness ==
    /\ CollatedScores
    /\ Len(ret.batch) = 2
    /\ Len(BatchScores[1]) < Len(BatchScores[2])
    /\ BatchScores[1][1] # 0
    /\ Get(Get(ret.batched_data).saliency_all_labels).data[1][LongestScores] = 0

====
